---- MODULE Spec2Model ----
(***************************************************************************)
(* A model of src/src/element-internals.ts: the ElementInternals class     *)
(* (validity reconciliation, form-value mirroring through hidden proxy     *)
(* inputs, the form-associated gating of every accessor) and the           *)
(* attachInternals installation.                                           *)
(*                                                                         *)
(* The helpers imported from ./utils and ./ValidityState are modelled from *)
(* the specification's description of them; the maps of ./maps are the     *)
(* variables.  A ValidityState is one object: what reconcileValidty and    *)
(* setValid write into it is stored for the instance at once.              *)
(***************************************************************************)
EXTENDS Integers, Sequences, FiniteSets, TLC

\* ------------------------------------------------------------------ bounds
\* The number of ElementInternals objects ever constructed.
MaxInst == 2
\* The number of entries of a FormData passed to setFormValue.
MaxEntries == 2

\* ------------------------------------------------------------- JS values
Undefined == "undefined"
Null == "null"

\* ---------------------------------------------------------- the elements
\* Two elements of the document: a custom element (hyphenated tag name) and
\* a built-in one.  A tag name is the sequence of its characters.
Elements == {"e1", "e2"}
tagName == [e1 |-> <<"x", "-", "a">>, e2 |-> <<"d", "i", "v">>]

\* String.prototype.indexOf for one character: the first 0-based index of c
\* in s, or -1.
IndexOf(s, c) ==
  IF \E k \in 1..Len(s) : s[k] = c
  THEN (CHOOSE k \in 1..Len(s) : s[k] = c /\ \A j \in 1..(k - 1) : s[j] # c) - 1
  ELSE -1

Instances == 1..MaxInst
NoInstance == 0

\* ---------------------------------------------------------- ValidityState
\* The named flags of a ValidityState (a subset of the platform's ten, enough
\* to tell one flag from another) and the derived flag.
Flags == {"valueMissing", "customError"}
Keys == Flags \cup {"valid"}

\* new ValidityState(): every flag false, valid true.
NewValidityState == [k \in Keys |-> k = "valid"]

\* setValid(validity): every named flag reset to false.
setValid(validity) == [k \in Keys |-> IF k \in Flags THEN FALSE ELSE validity[k]]

\* valid = NOR of the named flags of a state (the key "valid" is not a flag).
isValid(state) == \A k \in (DOMAIN state) \ {"valid"} : state[k] = FALSE

\* reconcileValidty(validity, newState): valid is recomputed from newState,
\* then every key of newState is written into validity, which is returned.
reconcileValidty(validity, newState) ==
  [k \in Keys |->
     IF k \in DOMAIN newState THEN newState[k]
     ELSE IF k = "valid" THEN isValid(newState)
     ELSE validity[k]]

\* ------------------------------------------------- arguments of setValidity
\* A validityChanges object: some named flags with their values, or the key
\* valid alone with a value.
ChangeObjects ==
  UNION {[D -> BOOLEAN] : D \in SUBSET Flags} \cup [{"valid"} -> BOOLEAN]
EmptyObject == [k \in {} |-> TRUE]
\* The first argument: omitted, or an object.
NoChanges == [present |-> FALSE, obj |-> EmptyObject]
ValidityChanges == {NoChanges} \cup {[present |-> TRUE, obj |-> o] : o \in ChangeObjects}
Messages == {Undefined, "", "Required"}
Anchors == {Undefined, "anchor"}

\* JS truthiness of a (possibly undefined) string.
Truthy(s) == s # Undefined /\ s # Null /\ s # ""

\* ------------------------------------------------ arguments of setFormValue
\* The value of a FormData entry: a string or a File.
StringEntry(k, v) == [key |-> k, type |-> "string", value |-> v]
FileEntry(k) == [key |-> k, type |-> "object", value |-> "file"]
Entries == {StringEntry("a", "1"), StringEntry("b", "2"), FileEntry("f")}
SeqsUpTo(S, n) == UNION {[1..m -> S] : m \in 0..n}

NullValue == [kind |-> "null", str |-> "", entries |-> <<>>]
UndefinedValue == [kind |-> "undefined", str |-> "", entries |-> <<>>]
StringValue(s) == [kind |-> "string", str |-> s, entries |-> <<>>]
FormDataValue(es) == [kind |-> "FormData", str |-> "", entries |-> es]
FormValues ==
  {NullValue, StringValue("x")} \cup {FormDataValue(es) : es \in SeqsUpTo(Entries, MaxEntries)}
\* The name attribute of the host as getAttribute('name') reads it.
NameAttrs == {Null, "", "n"}


\* ------------------------------------------------------- outcomes of a call
Ok == "ok"
AssociationError == "DOMException: not a form-associated custom element"
MessageRequired == "DOMException: the second argument should not be empty"
ArgumentRequired == "TypeError: 1 argument required"
IllegalConstructor == "TypeError: Illegal constructor"
NonCustomElement == "Error: unable to attach to non-custom elements"
AnchorNotAssociated == "DOMException: anchor on a non-form-associated element"
NotSupported == "DOMException: the host already has a shadow root"
\* Not an outcome yet: the attachShadow call is between two of its lines.
Running == "running"
\* Not an outcome yet: the call is inside dispatchEvent, its listeners running.
Dispatching == "dispatching"

\* -------------------------------------------------------------------- state
VARIABLES
  formAssociated,        \* element -> the static formAssociated of its class
  refMap,                \* instance -> its host element (Undefined: not constructed)
  internalsMap,          \* element -> the instance registered for it
  validityMap,           \* instance -> its ValidityState
  validationMessageMap,  \* instance -> its validation message
  validationAnchorMap,   \* instance -> its validation anchor
  ariaInvalid,           \* element -> its aria-invalid attribute (Null: absent)
  hiddenInputMap,        \* instance -> the hidden inputs it placed, in order
  refValueMap,           \* element -> the form value last stored for it
  frame,                 \* the checkValidity or reportValidity call that is inside
                         \* dispatchEvent while the listeners of "invalid" run
  evaluations,           \* how many times the module has been evaluated
  windowElementInternals, \* whether window.ElementInternals is defined
  wrappers,              \* how many attachShadowObserver wrap the platform's attachShadow
  documentObservers,     \* the observers observing document.documentElement
  platformShadowRoot,    \* element -> the shadow root the platform attached to it
  shadowRootMap,         \* element -> the shadow root recorded for it
  shadowObservers,       \* element -> the observers observing its shadow root
  shadowHostsMap,        \* element -> the observer recorded for it
  pc,                    \* the attachShadow call in progress and the line it is at
  last                   \* the most recent call: its arguments and what it returned

\* The state of the installation block and of the attachShadow wrapper.
installation ==
  <<evaluations, windowElementInternals, wrappers, documentObservers,
    platformShadowRoot, shadowRootMap, shadowObservers, shadowHostsMap, pc>>

vars ==
  <<formAssociated, refMap, internalsMap, validityMap, validationMessageMap,
    validationAnchorMap, ariaInvalid, hiddenInputMap, refValueMap, frame,
    installation, last>>

\* A shadow root: its host and the mode it was attached with.
NoRoot == [host |-> Undefined, mode |-> Undefined]
\* The argument of attachShadow.
ShadowRootInits == {[mode |-> "open"], [mode |-> "closed"]}
NoInit == [mode |-> Undefined]
\* No attachShadow call is in progress.
Idle == [at |-> "idle", host |-> Undefined, init |-> NoInit]

\* What a call finds of its instance on entry; associated is the
\* formAssociated of the host's class then.
Snapshot(validity, message, aria, inputs, anchor, associated) ==
  [validity |-> validity, message |-> message, aria |-> aria, inputs |-> inputs,
   anchor |-> anchor, associated |-> associated]
NoSnapshot == Snapshot(NewValidityState, Undefined, Null, <<>>, Undefined, FALSE)

\* No call is inside dispatchEvent.
NoFrame == [op |-> "none", inst |-> NoInstance, pre |-> NoSnapshot]

\* The record of a call.  pre is the state of the instance on entry; events
\* counts the "invalid" events dispatched on the host during the call; focus
\* lists the targets focus() was called on, in order.
NoCall ==
  [op |-> "none", inst |-> NoInstance, ref |-> Undefined, outcome |-> Ok,
   result |-> Undefined, changes |-> NoChanges, msg |-> Undefined,
   anchor |-> Undefined, pre |-> NoSnapshot, value |-> UndefinedValue,
   name |-> Null, events |-> 0, focus |-> <<>>, init |-> NoInit, root |-> NoRoot]

Constructed == {i \in Instances : refMap[i] # Undefined}
\* The state of a constructed instance as a call finds it.
Pre(this) ==
  Snapshot(validityMap[this], validationMessageMap[this], ariaInvalid[refMap[this]],
           hiddenInputMap[this], validationAnchorMap[this], formAssociated[refMap[this]])
\* The instances whose host is the element ref.
InstancesOf(ref) == {i \in Instances : refMap[i] = ref}

\* No shadow root has been attached and no attachShadow call is in progress.
NoShadowRoots ==
  /\ platformShadowRoot = [e \in Elements |-> NoRoot]
  /\ shadowRootMap = [e \in Elements |-> NoRoot]
  /\ shadowObservers = [e \in Elements |-> 0]
  /\ shadowHostsMap = [e \in Elements |-> Undefined]
  /\ pc = Idle

\* The module has been evaluated once, on a platform without an
\* ElementInternals of its own: the installation block has run.
Installed ==
  /\ evaluations = 1
  /\ windowElementInternals = TRUE
  /\ wrappers = 1
  /\ documentObservers = 1
  /\ NoShadowRoots

\* The module has not been evaluated yet.
NotInstalled ==
  /\ evaluations = 0
  /\ windowElementInternals = FALSE
  /\ wrappers = 0
  /\ documentObservers = 0
  /\ NoShadowRoots

\* The maps of ./maps are empty: no instance has been constructed.
NoInstances ==
  /\ formAssociated \in {[e \in Elements |-> e = "e1" /\ b] : b \in BOOLEAN}
  /\ refMap = [i \in Instances |-> Undefined]
  /\ internalsMap = [e \in Elements |-> NoInstance]
  /\ validityMap = [i \in Instances |-> NewValidityState]
  /\ validationMessageMap = [i \in Instances |-> Undefined]
  /\ validationAnchorMap = [i \in Instances |-> Undefined]
  /\ ariaInvalid = [e \in Elements |-> Null]
  /\ hiddenInputMap = [i \in Instances |-> <<>>]
  /\ refValueMap = [e \in Elements |-> UndefinedValue]
  /\ frame = NoFrame
  /\ last = NoCall

Init == Installed /\ NoInstances

\* throwIfNotFormAssociated(ref, message): throws unless the class of ref
\* declares itself form-associated; read from the class on every call.
throwIfNotFormAssociated(ref) == ~formAssociated[ref]

\* A step that writes nothing but the record of the call.
Completes(call) ==
  /\ last' = call
  /\ UNCHANGED <<formAssociated, refMap, internalsMap, validityMap,
                 validationMessageMap, validationAnchorMap, ariaInvalid,
                 hiddenInputMap, refValueMap, installation>>

\* A call that throws before it changed anything.
Throws(call, error) ==
  /\ Completes([call EXCEPT !.outcome = error])
  /\ UNCHANGED frame

\* A call that returns without changing anything.
Returns(call, result) ==
  /\ Completes([call EXCEPT !.result = result])
  /\ UNCHANGED frame

\* ---------------------------------------------------------------- lifecycle
\* The author changes the static formAssociated of a custom element's class.
SetFormAssociated(ref, b) ==
  /\ IndexOf(tagName[ref], "-") # -1
  /\ formAssociated[ref] # b
  /\ formAssociated' = [formAssociated EXCEPT ![ref] = b]
  /\ last' = [NoCall EXCEPT !.op = "formAssociated", !.ref = ref]
  /\ UNCHANGED <<refMap, internalsMap, validityMap, validationMessageMap,
                 validationAnchorMap, ariaInvalid, hiddenInputMap, refValueMap, frame, installation>>

\* new ElementInternals(ref), as the call `call`.  The new object is the first
\* instance not yet constructed.  initAom, initLabels and initForm keep state of
\* their own only; initRef gives the instance an empty list of hidden inputs.
Constructor(ref, call) ==
  IF IndexOf(tagName[ref], "-") = -1
  THEN Throws(call, IllegalConstructor)
  ELSE
    LET this == CHOOSE i \in Instances : refMap[i] = Undefined /\ \A j \in 1..(i - 1) : refMap[j] # Undefined
    IN /\ refMap' = [refMap EXCEPT ![this] = ref]
       /\ validityMap' = [validityMap EXCEPT ![this] = NewValidityState]
       /\ internalsMap' = [internalsMap EXCEPT ![ref] = this]
       /\ hiddenInputMap' = [hiddenInputMap EXCEPT ![this] = <<>>]
       /\ last' = [call EXCEPT !.inst = this, !.result = "ElementInternals"]
       /\ UNCHANGED <<formAssociated, validationMessageMap, validationAnchorMap,
                      ariaInvalid, refValueMap, frame, installation>>

\* ref.attachInternals()
attachInternals(ref) ==
  /\ windowElementInternals
  /\ Constructed # Instances
  /\ LET call == [NoCall EXCEPT !.op = "attachInternals", !.ref = ref]
     IN IF IndexOf(tagName[ref], "-") = -1
        THEN Throws(call, NonCustomElement)
        ELSE Constructor(ref, call)

\* ------------------------------------------------------------------ validity
\* The copy of validityChanges made key by key.
validityChangesObj(validityChanges) ==
  [key \in DOMAIN validityChanges |-> validityChanges[key]]

\* check without `delete check.valid`: a valid passed by the caller survives.
check_keepsValid(validity, changesObj) ==
  [k \in Keys \cup DOMAIN changesObj |->
     IF k \in DOMAIN changesObj THEN changesObj[k] ELSE validity[k]]

\* { ...validity, ...validityChangesObj } with the key valid deleted.
check(validity, changesObj) ==
  [k \in (Keys \cup DOMAIN changesObj) \ {"valid"} |->
     IF k \in DOMAIN changesObj THEN changesObj[k] ELSE validity[k]]

\* reconciled with the reset taken on every call.
reconciled_alwaysReset(validity, changesObj) ==
  reconcileValidty(setValid(validity), check(setValid(validity), changesObj))

\* reconciled without the reset for an empty validityChanges.
reconciled_noReset(validity, changesObj) ==
  reconcileValidty(validity, check(validity, changesObj))

\* The ValidityState object of the instance when setValidity has reconciled
\* it: reset first when no key was passed, then merged with the changes.
reconciled(validity, changesObj) ==
  LET cleared == IF DOMAIN changesObj = {} THEN setValid(validity) ELSE validity
  IN reconcileValidty(cleared, check(cleared, changesObj))

\* valid ? '' : validationMessage
storedMessage(valid, validationMessage) == IF valid THEN "" ELSE validationMessage

\* `${!valid}`
ariaInvalidOf(valid) == IF ~valid THEN "true" ELSE "false"

\* storedAnchor keeping the old anchor when the call then throws.
storedAnchor_onSuccess(old, anchor, throws) == IF throws THEN old ELSE anchor

\* validationAnchorMap.set(this, anchor): written before the validity is
\* reconciled, whether or not the call then throws for the missing message.
storedAnchor(old, anchor, throws) == anchor

\* internals.setValidity(validityChanges, validationMessage, anchor)
setValidity(this, validityChanges, validationMessage, anchor) ==
  /\ this \in Constructed
  /\ LET ref == refMap[this]
         call == [NoCall EXCEPT !.op = "setValidity", !.inst = this, !.ref = ref,
                                !.changes = validityChanges, !.msg = validationMessage,
                                !.anchor = anchor, !.pre = Pre(this)]
     IN IF throwIfNotFormAssociated(ref) THEN Throws(call, AssociationError)
        ELSE IF ~validityChanges.present THEN Throws(call, ArgumentRequired)
        ELSE
          LET validity == reconciled(validityMap[this], validityChangesObj(validityChanges.obj))
              valid == validity.valid
          IN /\ validationAnchorMap' =
                  [validationAnchorMap EXCEPT
                     ![this] = storedAnchor(@, anchor, ~valid /\ ~Truthy(validationMessage))]
             /\ validityMap' = [validityMap EXCEPT ![this] = validity]
             /\ IF ~valid /\ ~Truthy(validationMessage)
                THEN /\ last' = [call EXCEPT !.outcome = MessageRequired]
                     /\ UNCHANGED <<validationMessageMap, ariaInvalid>>
                ELSE /\ validationMessageMap' =
                          [validationMessageMap EXCEPT ![this] = storedMessage(valid, validationMessage)]
                     /\ ariaInvalid' = [ariaInvalid EXCEPT ![ref] = ariaInvalidOf(valid)]
                     /\ last' = call
             /\ UNCHANGED <<formAssociated, refMap, internalsMap, hiddenInputMap,
                            refValueMap, frame, installation>>

BoolString(b) == IF b THEN "true" ELSE "false"

\* dispatchesInvalid without the test of validity.valid.
dispatchesInvalid_always(validity) == TRUE

\* if (!validity.valid): the "invalid" event is dispatched on the host.
dispatchesInvalid(validity) == ~validity.valid

\* The call enters ref.dispatchEvent(validityEvent): the listeners of
\* "invalid" run, synchronously, before the call goes on.  What a listener
\* does is any operation below, taken while the frame is set.
Dispatches(call) ==
  /\ frame' = [op |-> call.op, inst |-> call.inst, pre |-> call.pre]
  /\ Completes([call EXCEPT !.outcome = Dispatching, !.events = 1])

\* The "invalid" events one call dispatches on an element in this state.
Events(validity) == IF dispatchesInvalid(validity) THEN 1 ELSE 0

\* internals.checkValidity(), up to its return or, when the host has
\* listeners of "invalid" that call back into the program (listens), up to
\* the dispatch that runs them
checkValidity(this, listens) ==
  /\ this \in Constructed
  /\ frame = NoFrame
  /\ LET ref == refMap[this]
         call == [NoCall EXCEPT !.op = "checkValidity", !.inst = this, !.ref = ref,
                                !.pre = Pre(this)]
         validity == validityMap[this]
     IN IF throwIfNotFormAssociated(ref) THEN Throws(call, AssociationError)
        ELSE IF dispatchesInvalid(validity) /\ listens THEN Dispatches(call)
        ELSE Returns([call EXCEPT !.events = Events(validity)], BoolString(validity.valid))

\* checkValidity after dispatchEvent returned: return validity.valid, read
\* from the ValidityState object as it is now.
checkValidityReturns(this) ==
  /\ frame.op = "checkValidity" /\ frame.inst = this
  /\ frame' = NoFrame
  /\ Completes([NoCall EXCEPT !.op = "checkValidity", !.inst = this, !.ref = refMap[this],
                              !.pre = frame.pre, !.events = 1,
                              !.result = BoolString(validityMap[this].valid)])

\* reportValidity's focus calls in the other order.
focusMoves_anchorFirst(ref, anchor, valid) ==
  IF ~valid /\ Truthy(anchor) THEN <<anchor, ref>> ELSE <<>>

\* if (!valid && anchor) { ref.focus(); anchor.focus(); }
focusMoves(ref, anchor, valid) ==
  IF ~valid /\ Truthy(anchor) THEN <<ref, anchor>> ELSE <<>>

\* afterCheckValidity without the guard on the anchor.
afterCheckValidity_noGuard(call, this) ==
  LET ref == refMap[this]
      valid == validityMap[this].valid
      anchor == validationAnchorMap[this]
  IN Completes([call EXCEPT !.focus = focusMoves(ref, anchor, valid),
                            !.result = BoolString(valid)])

\* reportValidity once this.checkValidity() has returned validity.valid: the
\* anchor is read, the guard on it taken, focus moved, valid returned.
afterCheckValidity(call, this) ==
  LET ref == refMap[this]
      valid == validityMap[this].valid
      anchor == validationAnchorMap[this]
  IN IF Truthy(anchor) /\ ~formAssociated[ref]
     THEN Completes([call EXCEPT !.outcome = AnchorNotAssociated])
     ELSE Completes([call EXCEPT !.focus = focusMoves(ref, anchor, valid),
                                 !.result = BoolString(valid)])

\* internals.reportValidity(), up to its return or to the dispatch of
\* "invalid" inside this.checkValidity(), which checks the association again
reportValidity(this, listens) ==
  /\ this \in Constructed
  /\ frame = NoFrame
  /\ LET ref == refMap[this]
         call == [NoCall EXCEPT !.op = "reportValidity", !.inst = this, !.ref = ref,
                                !.pre = Pre(this)]
         validity == validityMap[this]
     IN IF throwIfNotFormAssociated(ref) THEN Throws(call, AssociationError)
        ELSE IF dispatchesInvalid(validity) /\ listens THEN Dispatches(call)
        ELSE /\ afterCheckValidity([call EXCEPT !.events = Events(validity)], this)
             /\ UNCHANGED frame

\* reportValidity after dispatchEvent and this.checkValidity() returned.
reportValidityReturns(this) ==
  /\ frame.op = "reportValidity" /\ frame.inst = this
  /\ frame' = NoFrame
  /\ afterCheckValidity([NoCall EXCEPT !.op = "reportValidity", !.inst = this,
                                       !.ref = refMap[this], !.pre = frame.pre,
                                       !.events = 1],
                        this)

\* internals.validity
validity(this) ==
  /\ this \in Constructed
  /\ LET ref == refMap[this]
         call == [NoCall EXCEPT !.op = "validity", !.inst = this, !.ref = ref,
                                !.pre = Pre(this)]
     IN IF throwIfNotFormAssociated(ref) THEN Throws(call, AssociationError)
        ELSE Returns(call, "ValidityState")

\* internals.validationMessage
validationMessage(this) ==
  /\ this \in Constructed
  /\ LET ref == refMap[this]
         call == [NoCall EXCEPT !.op = "validationMessage", !.inst = this, !.ref = ref,
                                !.pre = Pre(this)]
     IN IF throwIfNotFormAssociated(ref) THEN Throws(call, AssociationError)
        ELSE Returns(call, validationMessageMap[this])

\* internals.willValidate; disabled: the host is disabled (property or attribute)
willValidate(this, disabled) ==
  /\ this \in Constructed
  /\ LET ref == refMap[this]
         call == [NoCall EXCEPT !.op = "willValidate", !.inst = this, !.ref = ref,
                                !.pre = Pre(this)]
     IN IF throwIfNotFormAssociated(ref) THEN Throws(call, AssociationError)
        ELSE Returns(call, IF disabled THEN "false" ELSE "true")

\* internals.form; the form itself is found by findParentForm
form(this) ==
  /\ this \in Constructed
  /\ LET ref == refMap[this]
         call == [NoCall EXCEPT !.op = "form", !.inst = this, !.ref = ref,
                                !.pre = Pre(this)]
     IN IF throwIfNotFormAssociated(ref) THEN Throws(call, AssociationError)
        ELSE Returns(call, IF formAssociated[ref] = TRUE THEN "form" ELSE Undefined)

\* internals.labels; the list itself is queried from the host's root
labels(this) ==
  /\ this \in Constructed
  /\ LET ref == refMap[this]
         call == [NoCall EXCEPT !.op = "labels", !.inst = this, !.ref = ref,
                                !.pre = Pre(this)]
     IN IF throwIfNotFormAssociated(ref) THEN Throws(call, AssociationError)
        ELSE Returns(call, "labels")


\* ---------------------------------------------------------------- form value
\* createHiddenInput(ref, internals): a hidden input named by the host's name
\* attribute, placed at the host and appended to the instance's list.
createHiddenInput(name) == [name |-> name, value |-> ""]

\* removeHiddenInputs(internals): every input of the list is removed from the
\* document and the list is emptied.
removeHiddenInputs(inputs) == <<>>

\* forEachEntry without `hiddenInput.name = formDataKey`: every input keeps
\* the host's name.
RECURSIVE forEachEntry_hostName(_, _, _)
forEachEntry_hostName(entries, name, inputs) ==
  IF entries = <<>> THEN inputs
  ELSE
    LET entry == Head(entries)
    IN forEachEntry_hostName(
         Tail(entries), name,
         IF entry.type = "string"
         THEN Append(inputs, [createHiddenInput(name) EXCEPT !.value = entry.value])
         ELSE inputs)

\* value.forEach(...): one hidden input per entry whose value is a string,
\* named by the entry's key and carrying the entry's value.
RECURSIVE forEachEntry(_, _, _)
forEachEntry(entries, name, inputs) ==
  IF entries = <<>> THEN inputs
  ELSE
    LET entry == Head(entries)
        hiddenInput == createHiddenInput(name)
    IN forEachEntry(
         Tail(entries), name,
         IF entry.type = "string"
         THEN Append(inputs, [hiddenInput EXCEPT !.name = entry.key, !.value = entry.value])
         ELSE inputs)

\* hiddenInputs without removeHiddenInputs(this): the inputs of earlier calls stay.
hiddenInputs_keepsOld(inputs, value, name) ==
  IF value.kind \notin {"null", "undefined"} /\ value.kind # "FormData"
  THEN IF Truthy(name)
       THEN Append(inputs, [createHiddenInput(name) EXCEPT !.value = value.str])
       ELSE inputs
  ELSE IF value.kind \notin {"null", "undefined"} /\ value.kind = "FormData"
  THEN forEachEntry(value.entries, name, inputs)
  ELSE inputs

\* hiddenInputs without the test of the host's name attribute.
hiddenInputs_anyName(inputs, value, name) ==
  IF value.kind \notin {"null", "undefined"} /\ value.kind # "FormData"
  THEN <<[createHiddenInput(name) EXCEPT !.value = value.str]>>
  ELSE IF value.kind \notin {"null", "undefined"} /\ value.kind = "FormData"
  THEN forEachEntry(value.entries, name, <<>>)
  ELSE <<>>

\* The hidden inputs of the instance when setFormValue(value) returns; name is
\* the host's name attribute.
hiddenInputs(inputs, value, name) ==
  LET removed == removeHiddenInputs(inputs)
  IN IF value.kind \notin {"null", "undefined"} /\ value.kind # "FormData"
     THEN IF Truthy(name)
          THEN Append(removed, [createHiddenInput(name) EXCEPT !.value = value.str])
          ELSE removed
     ELSE IF value.kind \notin {"null", "undefined"} /\ value.kind = "FormData"
     THEN forEachEntry(value.entries, name, removed)
     ELSE removed

\* storedValue keeping only the entries that produced a hidden input.
storedValue_filtered(value) ==
  [value EXCEPT !.entries = SelectSeq(value.entries, LAMBDA e : e.type = "string")]

\* The value setFormValue(value) stores for the host.
storedValue(value) == value

\* The call record of internals.setFormValue(value).
setFormValueCall(this, value, name) ==
  [NoCall EXCEPT !.op = "setFormValue", !.inst = this, !.ref = refMap[this],
                 !.value = value, !.name = name, !.pre = Pre(this)]

\* setFormValue past its association check: the inputs are replaced and the
\* value is stored for the host.
mirrorFormValue(this, value, name) ==
  /\ hiddenInputMap' =
       [hiddenInputMap EXCEPT ![this] = hiddenInputs(hiddenInputMap[this], value, name)]
  /\ refValueMap' = [refValueMap EXCEPT ![refMap[this]] = storedValue(value)]
  /\ last' = setFormValueCall(this, value, name)
  /\ UNCHANGED <<formAssociated, refMap, internalsMap, validityMap,
                 validationMessageMap, validationAnchorMap, ariaInvalid, frame, installation>>

\* setFormValue without throwIfNotFormAssociated.
setFormValue_unchecked(this, value, name) ==
  /\ this \in Constructed
  /\ mirrorFormValue(this, value, name)

\* internals.setFormValue(value); name: the host's name attribute
setFormValue(this, value, name) ==
  /\ this \in Constructed
  /\ IF throwIfNotFormAssociated(refMap[this])
     THEN Throws(setFormValueCall(this, value, name), AssociationError)
     ELSE mirrorFormValue(this, value, name)

\* -------------------------------------------------------------- installation
\* What the installation block and the attachShadow wrapper never write.
internals ==
  <<formAssociated, refMap, internalsMap, validityMap, validationMessageMap,
    validationAnchorMap, ariaInvalid, hiddenInputMap, refValueMap, frame>>

MaxEvaluations == 3

\* installs without the test of window.ElementInternals.
installs_always(defined) == TRUE

\* if (!window.ElementInternals)
installs(defined) == ~defined

\* One evaluation of the module: the installation block at its end defines
\* window.ElementInternals, wraps Element.prototype.attachShadow and observes
\* document.documentElement, unless window.ElementInternals is defined.
Evaluate ==
  /\ pc = Idle
  /\ evaluations < MaxEvaluations
  /\ evaluations' = evaluations + 1
  /\ IF installs(windowElementInternals)
     THEN /\ windowElementInternals' = TRUE
          /\ wrappers' = wrappers + 1
          /\ documentObservers' = documentObservers + 1
     ELSE UNCHANGED <<windowElementInternals, wrappers, documentObservers>>
  /\ last' = [NoCall EXCEPT !.op = "evaluate"]
  /\ UNCHANGED <<internals, platformShadowRoot, shadowRootMap, shadowObservers,
                 shadowHostsMap, pc>>

\* attachShadowObserver going on with the host's shadow root when the
\* platform's attachShadow failed.
attachShadowObserver_overFailure(host, init) ==
  /\ pc = Idle
  /\ wrappers > 0
  /\ platformShadowRoot' =
       [platformShadowRoot EXCEPT
          ![host] = IF @ # NoRoot THEN @ ELSE [host |-> host, mode |-> init.mode]]
  /\ pc' = [at |-> "created", host |-> host, init |-> init]
  /\ last' = [NoCall EXCEPT !.op = "attachShadow", !.ref = host, !.init = init,
                            !.outcome = Running]
  /\ UNCHANGED <<internals, evaluations, windowElementInternals, wrappers,
                 documentObservers, shadowRootMap, shadowObservers, shadowHostsMap>>

\* host.attachShadow(init), the wrapper's first line:
\* attachShadow.apply(this, args).  The platform attaches a shadow root of the
\* mode asked for, and throws when the host has one.
attachShadowObserver(host, init) ==
  /\ pc = Idle
  /\ wrappers > 0
  /\ LET call == [NoCall EXCEPT !.op = "attachShadow", !.ref = host, !.init = init]
     IN IF platformShadowRoot[host] # NoRoot
        THEN /\ last' = [call EXCEPT !.outcome = NotSupported]
             /\ UNCHANGED <<internals, installation>>
        ELSE /\ platformShadowRoot' =
                  [platformShadowRoot EXCEPT ![host] = [host |-> host, mode |-> init.mode]]
             /\ pc' = [at |-> "created", host |-> host, init |-> init]
             /\ last' = [call EXCEPT !.outcome = Running]
             /\ UNCHANGED <<internals, evaluations, windowElementInternals, wrappers,
                            documentObservers, shadowRootMap, shadowObservers,
                            shadowHostsMap>>

\* new MutationObserver(observerCallback); shadowRootMap.set(this, shadowRoot)
recordShadowRoot ==
  /\ pc.at = "created"
  /\ shadowRootMap' = [shadowRootMap EXCEPT ![pc.host] = platformShadowRoot[pc.host]]
  /\ pc' = [pc EXCEPT !.at = "recorded"]
  /\ UNCHANGED <<internals, evaluations, windowElementInternals, wrappers,
                 documentObservers, platformShadowRoot, shadowObservers,
                 shadowHostsMap, last>>

\* observer.observe(shadowRoot, observerConfig), once for every wrapper
\* around the platform's attachShadow
observeShadowRoot ==
  /\ pc.at = "recorded"
  /\ shadowObservers' = [shadowObservers EXCEPT ![pc.host] = @ + wrappers]
  /\ pc' = [pc EXCEPT !.at = "observing"]
  /\ UNCHANGED <<internals, evaluations, windowElementInternals, wrappers,
                 documentObservers, platformShadowRoot, shadowRootMap,
                 shadowHostsMap, last>>

\* shadowHostsMap.set(this, observer); return shadowRoot
attachShadowObserverReturns ==
  /\ pc.at = "observing"
  /\ shadowHostsMap' = [shadowHostsMap EXCEPT ![pc.host] = "observer"]
  /\ pc' = Idle
  /\ last' = [NoCall EXCEPT !.op = "attachShadow", !.ref = pc.host, !.init = pc.init,
                            !.root = platformShadowRoot[pc.host],
                            !.result = "ShadowRoot"]
  /\ UNCHANGED <<internals, evaluations, windowElementInternals, wrappers,
                 documentObservers, platformShadowRoot, shadowRootMap,
                 shadowObservers>>

\* internals.shadowRoot
shadowRoot(this) ==
  /\ this \in Constructed
  /\ LET ref == refMap[this]
         call == [NoCall EXCEPT !.op = "shadowRoot", !.inst = this, !.ref = ref]
         root == shadowRootMap[ref]
     IN IF root # NoRoot THEN Returns([call EXCEPT !.root = root], "ShadowRoot")
        ELSE Returns(call, Null)

\* ------------------------------------------------------------ specifications
\* The whole program from an empty registry: every operation, on every
\* instance, with arguments from these representative sets.
CoreChanges ==
  {NoChanges, [present |-> TRUE, obj |-> EmptyObject],
   [present |-> TRUE, obj |-> [customError |-> TRUE]]}
CoreMessages == {Undefined, "Required"}
CoreValues ==
  {NullValue, StringValue("x"), FormDataValue(<<StringEntry("a", "1"), FileEntry("f")>>)}
CoreNames == {"n"}
CoreAnchors == {Undefined}
\* A host none of whose listeners of "invalid" calls back into the program.
NoListeners == {FALSE}

Next ==
  \/ \E ref \in Elements, b \in BOOLEAN : SetFormAssociated(ref, b)
  \/ \E ref \in Elements : attachInternals(ref)
  \/ \E this \in Instances, listens \in NoListeners : checkValidity(this, listens)
  \/ \E this \in Instances, listens \in NoListeners : reportValidity(this, listens)
  \/ \E this \in Instances : validity(this)
  \/ \E this \in Instances : validationMessage(this)
  \/ \E this \in Instances, disabled \in BOOLEAN : willValidate(this, disabled)
  \/ \E this \in Instances : form(this)
  \/ \E this \in Instances : labels(this)
  \/ \E this \in Instances, validityChanges \in CoreChanges,
        message \in CoreMessages, anchor \in CoreAnchors :
       setValidity(this, validityChanges, message, anchor)
  \/ \E this \in Instances, value \in CoreValues, name \in CoreNames :
       setFormValue(this, value, name)

Spec == Init /\ [][Next]_vars

\* One instance from its construction on: the state right after
\* e1.attachInternals() returned the first instance.
InitAttached ==
  /\ Installed
  /\ formAssociated \in {[e \in Elements |-> e = "e1" /\ b] : b \in BOOLEAN}
  /\ refMap = [i \in Instances |-> IF i = 1 THEN "e1" ELSE Undefined]
  /\ internalsMap = [e \in Elements |-> IF e = "e1" THEN 1 ELSE NoInstance]
  /\ validityMap = [i \in Instances |-> NewValidityState]
  /\ validationMessageMap = [i \in Instances |-> Undefined]
  /\ validationAnchorMap = [i \in Instances |-> Undefined]
  /\ ariaInvalid = [e \in Elements |-> Null]
  /\ hiddenInputMap = [i \in Instances |-> <<>>]
  /\ refValueMap = [e \in Elements |-> UndefinedValue]
  /\ frame = NoFrame
  /\ last = [NoCall EXCEPT !.op = "attachInternals", !.ref = "e1", !.inst = 1,
                           !.result = "ElementInternals"]

\* The association check: every gated operation on one instance whose class
\* changes its formAssociated at any time, with the representative arguments.
NextAssociation ==
  \/ \E ref \in Elements, b \in BOOLEAN : SetFormAssociated(ref, b)
  \/ \E this \in Instances, listens \in NoListeners : checkValidity(this, listens)
  \/ \E this \in Instances, listens \in NoListeners : reportValidity(this, listens)
  \/ \E this \in Instances : validity(this)
  \/ \E this \in Instances : validationMessage(this)
  \/ \E this \in Instances, disabled \in BOOLEAN : willValidate(this, disabled)
  \/ \E this \in Instances : form(this)
  \/ \E this \in Instances : labels(this)
  \/ \E this \in Instances, validityChanges \in CoreChanges,
        message \in CoreMessages, anchor \in CoreAnchors :
       setValidity(this, validityChanges, message, anchor)
  \/ \E this \in Instances, value \in CoreValues, name \in CoreNames :
       setFormValue(this, value, name)

SpecAssociation == InitAttached /\ [][NextAssociation]_vars

\* Validity: every setValidity call the argument sets allow, the validity
\* accessors, and the class changing its formAssociated.
NextValidity ==
  \/ \E ref \in Elements, b \in BOOLEAN : SetFormAssociated(ref, b)
  \/ \E this \in Instances, listens \in NoListeners : checkValidity(this, listens)
  \/ \E this \in Instances, listens \in NoListeners : reportValidity(this, listens)
  \/ \E this \in Instances : validity(this)
  \/ \E this \in Instances : validationMessage(this)
  \/ \E this \in Instances, validityChanges \in ValidityChanges,
        message \in Messages, anchor \in Anchors :
       setValidity(this, validityChanges, message, anchor)

SpecValidity == InitAttached /\ [][NextValidity]_vars

\* Re-entrancy: one attached instance whose host has listeners of "invalid"
\* that call setValidity or change the class's formAssociated while
\* checkValidity or reportValidity is inside dispatchEvent.
ListenerChanges == {[present |-> TRUE, obj |-> EmptyObject],
                    [present |-> TRUE, obj |-> [f \in {"customError"} |-> TRUE]]}
Listeners == BOOLEAN

NextListener ==
  \/ \E ref \in {"e1"}, b \in BOOLEAN : SetFormAssociated(ref, b)
  \/ \E this \in Instances, c \in ListenerChanges, m \in CoreMessages, a \in Anchors :
        setValidity(this, c, m, a)
  \/ \E this \in Instances, listens \in Listeners : checkValidity(this, listens)
  \/ \E this \in Instances, listens \in Listeners : reportValidity(this, listens)
  \/ \E this \in Instances : checkValidityReturns(this)
  \/ \E this \in Instances : reportValidityReturns(this)

SpecListener == InitAttached /\ [][NextListener]_vars

\* Installation: the module evaluated any number of times, shadow roots
\* attached through the wrapper, instances attached and asked for their
\* shadow root.  One call runs at a time.
InitProcess == NotInstalled /\ NoInstances

NextInstall ==
  \/ Evaluate
  \/ \E host \in Elements, init \in ShadowRootInits : attachShadowObserver(host, init)
  \/ recordShadowRoot
  \/ observeShadowRoot
  \/ attachShadowObserverReturns
  \/ \E ref \in Elements : pc = Idle /\ attachInternals(ref)
  \/ \E this \in Instances : pc = Idle /\ shadowRoot(this)

SpecInstall == InitProcess /\ [][NextInstall]_vars

\* Form value: every setFormValue call the argument sets allow.
NextFormValue ==
  \/ \E ref \in Elements, b \in BOOLEAN : SetFormAssociated(ref, b)
  \/ \E this \in Instances, value \in FormValues, name \in NameAttrs :
       setFormValue(this, value, name)

SpecFormValue == InitAttached /\ [][NextFormValue]_vars


\* ================================================================== claims
\* The instance and the host of the most recent call.
Called(op) == last.op = op /\ last.inst \in Constructed
\* setValidity was called with an object that sets some named flag to true.
SetsAFlag(changes) ==
  changes.present /\ \E f \in Flags \cap DOMAIN changes.obj : changes.obj[f] = TRUE

\* C1: after every setValidity call, successful or failing, valid equals the
\* NOR of the named flags stored for the instance; a valid passed by the
\* caller never survives.
C1_ValidIsNorOfFlags ==
  \A i \in Constructed : validityMap[i].valid = (\A f \in Flags : validityMap[i][f] = FALSE)

\* C1 witness: a call passed {valid: true} to an instance with a flag set and
\* returned; the instance is still invalid.
C1_Witness ==
  /\ Called("setValidity") /\ last.outcome = Ok
  /\ last.changes.present /\ DOMAIN last.changes.obj = {"valid"} /\ last.changes.obj["valid"] = TRUE
  /\ \E f \in Flags : validityMap[last.inst][f] = TRUE
  /\ validityMap[last.inst].valid = FALSE

\* C2 (as claimed): setValidity with a flag set to true and no message, on a
\* form-associated element, fails and leaves the validity flags, the
\* validation message and aria-invalid as they were before the call.
C2_FailedCallChangesNothing ==
  (Called("setValidity") /\ SetsAFlag(last.changes) /\ ~Truthy(last.msg)
     /\ formAssociated[last.ref])
  => /\ last.outcome = MessageRequired
     /\ validityMap[last.inst] = last.pre.validity
     /\ validationMessageMap[last.inst] = last.pre.message
     /\ ariaInvalid[last.ref] = last.pre.aria

\* C4: setValidity({}) on a form-associated element succeeds and leaves every
\* named flag false and valid true, whatever the state before.
C4_EmptyChangesForceValid ==
  (Called("setValidity") /\ last.changes.present /\ DOMAIN last.changes.obj = {}
     /\ formAssociated[last.ref])
  => /\ last.outcome = Ok
     /\ \A f \in Flags : validityMap[last.inst][f] = FALSE
     /\ validityMap[last.inst].valid = TRUE

\* C4 witness: setValidity({}) returned on an instance that had every named
\* flag set.
C4_Witness ==
  /\ Called("setValidity") /\ last.changes.present /\ DOMAIN last.changes.obj = {}
  /\ \A f \in Flags : last.pre.validity[f] = TRUE
  /\ last.outcome = Ok
  /\ validityMap[last.inst] = NewValidityState

\* C10 (as claimed): after any sequence of setValidity calls, failed ones
\* included, aria-invalid once written is "true" exactly when the stored valid
\* flag is false and "false" exactly when it is true.
C10_AriaInvalidReflectsValid ==
  \A i \in Constructed :
    ariaInvalid[refMap[i]] # Null
    => /\ (ariaInvalid[refMap[i]] = "true") <=> (validityMap[i].valid = FALSE)
       /\ (ariaInvalid[refMap[i]] = "false") <=> (validityMap[i].valid = TRUE)


\* C3 (as claimed): attachInternals on a host that already has an instance
\* fails, the first instance stays registered with its validity, message and
\* form value untouched, and no host ever has more than one instance.
C3_SecondAttachFails ==
  [][/\ \A ref \in Elements : Cardinality({i \in Instances : refMap'[i] = ref}) <= 1
     /\ (last'.op = "attachInternals" /\ internalsMap[last'.ref] # NoInstance)
        => /\ last'.outcome # Ok
           /\ internalsMap'[last'.ref] = internalsMap[last'.ref]
           /\ validityMap' = validityMap
           /\ validationMessageMap' = validationMessageMap
           /\ refValueMap' = refValueMap]_vars

\* The nine operations gated by throwIfNotFormAssociated.
GatedOps ==
  {"form", "labels", "validity", "validationMessage", "willValidate",
   "checkValidity", "reportValidity", "setValidity", "setFormValue"}

\* C5: each gated operation called while the class of the host is not
\* form-associated throws the association error and returns nothing, also on
\* an instance that worked before the class changed.
C5_NotFormAssociatedAlwaysThrows ==
  (last.op \in GatedOps /\ ~last.pre.associated)
  => /\ last.outcome = AssociationError
     /\ last.result = Undefined

\* C5 witness: setFormValue throws the association error on an instance for
\* whose host an earlier setFormValue stored a value.
C5_Witness ==
  /\ Called("setFormValue") /\ ~last.pre.associated
  /\ last.outcome = AssociationError
  /\ refValueMap[last.ref] # UndefinedValue

\* The hidden inputs that mirror a form value for a host named name.
Mirror(value, name) ==
  CASE value.kind = "string" ->
         IF name \in {Null, ""} THEN <<>> ELSE <<[name |-> name, value |-> value.str]>>
    [] value.kind = "FormData" ->
         LET strings == SelectSeq(value.entries, LAMBDA e : e.type = "string")
         IN [k \in 1..Len(strings) |-> [name |-> strings[k].key, value |-> strings[k].value]]
    [] OTHER -> <<>>

\* C6: after every setFormValue call that returns, the hidden inputs of the
\* instance are exactly those mirroring the value just stored for the host:
\* none of an earlier call remains, and null leaves none.
C6_InputsMirrorStoredValue ==
  (Called("setFormValue") /\ last.outcome = Ok)
  => /\ hiddenInputMap[last.inst] = Mirror(refValueMap[last.ref], last.name)
     /\ refValueMap[last.ref].kind = "null" => hiddenInputMap[last.inst] = <<>>

\* C6 witness: setFormValue(null) returned on an instance that had two inputs.
C6_Witness ==
  /\ Called("setFormValue") /\ last.outcome = Ok
  /\ last.value = NullValue /\ Len(last.pre.inputs) = 2
  /\ hiddenInputMap[last.inst] = <<>>

\* C7: setFormValue with a string x leaves no hidden input when the host has
\* no name attribute or an empty one, and exactly one, named n and valued x,
\* when the host has name="n".
C7_StringValueOneInputIfNamed ==
  (Called("setFormValue") /\ last.outcome = Ok /\ last.value.kind = "string")
  => IF last.name \in {Null, ""}
     THEN hiddenInputMap[last.inst] = <<>>
     ELSE hiddenInputMap[last.inst] = <<[name |-> last.name, value |-> last.value.str]>>

\* C7 witness: setFormValue("x") on an unnamed host whose instance had an input.
C7_Witness ==
  /\ Called("setFormValue") /\ last.outcome = Ok
  /\ last.value = StringValue("x") /\ last.name = Null
  /\ last.pre.inputs # <<>> /\ hiddenInputMap[last.inst] = <<>>

\* C8: setFormValue with a sequence of entries leaves one hidden input per
\* entry whose value is a string, in entry order, named by the entry's key and
\* carrying its value, whatever the host's name attribute; the other entries
\* leave none.
C8_OneInputPerStringEntry ==
  (Called("setFormValue") /\ last.outcome = Ok /\ last.value.kind = "FormData")
  => LET strings == SelectSeq(last.value.entries, LAMBDA e : e.type = "string")
         inputs == hiddenInputMap[last.inst]
     IN /\ Len(inputs) = Len(strings)
        /\ \A k \in 1..Len(strings) :
             inputs[k].name = strings[k].key /\ inputs[k].value = strings[k].value

\* C8 witness: a File entry before a string entry, on a host named "n": one
\* input, named by the string entry's key.
C8_Witness ==
  /\ Called("setFormValue") /\ last.outcome = Ok /\ last.name = "n"
  /\ last.value = FormDataValue(<<FileEntry("f"), StringEntry("b", "2")>>)
  /\ hiddenInputMap[last.inst] = <<[name |-> "b", value |-> "2"]>>

\* C9 (as claimed): the form value stored holds only the string-valued entries
\* of the sequence passed.
C9_StoredValueIsFiltered ==
  (Called("setFormValue") /\ last.outcome = Ok /\ last.value.kind = "FormData")
  => refValueMap[last.ref].entries = SelectSeq(last.value.entries, LAMBDA e : e.type = "string")

\* C9 (amended): the form value stored is the value as passed; entries with a
\* non-string value stay in it although they produced no hidden input.
C9_StoredValueIsAsPassed ==
  (Called("setFormValue") /\ last.outcome = Ok)
  => refValueMap[last.ref] = last.value

\* C9 witness: a sequence with a File entry is stored whole while only its
\* string entry has a hidden input.
C9_Witness ==
  /\ Called("setFormValue") /\ last.outcome = Ok
  /\ last.value = FormDataValue(<<StringEntry("a", "1"), FileEntry("f")>>)
  /\ refValueMap[last.ref] = last.value
  /\ Len(hiddenInputMap[last.inst]) = 1

\* C11: in every state from the one right after attach on, an instance
\* whose valid is true has the empty string as its validation message.
C11_ValidMeansEmptyMessage ==
  \A i \in Constructed : validityMap[i].valid => validationMessageMap[i] = ""

\* C12: a setValidity call that passes its checks, leaves the merged validity
\* valid and was given a validation message throws a TypeError.
C12_ValidWithMessageThrows ==
  (/\ Called("setValidity") /\ last.pre.associated /\ last.changes.present
   /\ isValid(reconciled(last.pre.validity, validityChangesObj(last.changes.obj)))
   /\ Truthy(last.msg))
  => last.outcome = ArgumentRequired

\* C13 as stated: whatever the outcome of a setValidity call, the anchor kept
\* for the instance afterwards is the one passed to it.
C13_AnchorStoredWhateverOutcome ==
  Called("setValidity") => validationAnchorMap[last.inst] = last.anchor

\* C13 amended: a setValidity call that gets past the association check and
\* the check of its first argument stores the anchor passed to it, also when
\* it then fails for the missing message; a call that fails one of those two
\* checks leaves the anchor that was there.
C13_AnchorStoredPastTheChecks ==
  Called("setValidity")
  => validationAnchorMap[last.inst] =
       IF last.outcome \in {AssociationError, ArgumentRequired}
       THEN last.pre.anchor ELSE last.anchor

\* C13 witness: a call failed for the missing message and replaced the anchor.
C13_Witness ==
  /\ Called("setValidity") /\ last.outcome = MessageRequired
  /\ last.anchor # last.pre.anchor
  /\ validationAnchorMap[last.inst] = last.anchor

\* The state a call writes to: the validity flags, the validation message,
\* the anchor, the aria-invalid attribute and the hidden inputs.
Written ==
  <<validityMap, validationMessageMap, validationAnchorMap, ariaInvalid, hiddenInputMap>>

\* C14: every step of checkValidity (the whole call, or its part before or
\* after the dispatch) leaves the flags, the message, the anchor, aria-invalid
\* and the hidden inputs as they are; the call dispatches one "invalid" event
\* when it found the element invalid and none when it found it valid, and it
\* returns the valid flag as it is when it returns.
C14_CheckValidityOnlyReads ==
  [][last'.op = "checkValidity"
     => /\ UNCHANGED Written
        /\ last'.outcome \in {Ok, Dispatching}
           => last'.events = (IF last'.pre.validity.valid THEN 0 ELSE 1)
        /\ last'.outcome = Ok
           => last'.result = BoolString(validityMap'[last'.inst].valid)]_vars

\* C14 witness: checkValidity returned false on an invalid element after
\* dispatching one event.
C14_Witness ==
  /\ Called("checkValidity") /\ last.outcome = Ok
  /\ ~last.pre.validity.valid /\ last.events = 1 /\ last.result = "false"

\* What C15 says of a reportValidity call that is over: it returned the valid
\* flag, dispatched at most one event, and moved focus to the host and then
\* to the anchor if the element is invalid with an anchor, nowhere otherwise.
ReportedAndFocused ==
  LET valid == validityMap[last.inst].valid
      anchor == validationAnchorMap[last.inst]
  IN /\ last.outcome = Ok
     /\ last.result = BoolString(valid)
     /\ last.events <= 1
     /\ last.focus = IF ~valid /\ anchor # Undefined THEN <<last.ref, anchor>> ELSE <<>>

\* C15 as stated: every reportValidity call that passed the association check
\* on entry returns checkValidity's result and moves focus as described.
C15_ReportValidityFocus ==
  (Called("reportValidity") /\ last.pre.associated /\ last.outcome # Dispatching)
  => ReportedAndFocused

\* C15 amended: the same, unless an anchor is registered and the host's class
\* is no longer form-associated when checkValidity returns; the call then
\* fails after the dispatch of one event and moves no focus.
C15_ReportValidityFocusUnlessGuard ==
  (Called("reportValidity") /\ last.pre.associated /\ last.outcome # Dispatching)
  => IF validationAnchorMap[last.inst] # Undefined /\ ~formAssociated[last.ref]
     THEN last.outcome = AnchorNotAssociated /\ last.events = 1 /\ last.focus = <<>>
     ELSE ReportedAndFocused

\* C15 witness: reportValidity returned false on an invalid element with an
\* anchor, after one event and focus on the host, then on the anchor.
C15_Witness ==
  /\ Called("reportValidity") /\ last.outcome = Ok /\ last.result = "false"
  /\ last.events = 1
  /\ last.focus = <<last.ref, "anchor">>

\* C16: a successful setValidity call with a non-empty validityChanges leaves
\* every named flag that is not one of its keys as the call found it, and
\* gives every named flag that is a key the value passed.
C16_UnnamedFlagsKept ==
  (/\ Called("setValidity") /\ last.outcome = Ok
   /\ last.changes.present /\ DOMAIN last.changes.obj # {})
  => \A f \in Flags :
       validityMap[last.inst][f] =
         IF f \in DOMAIN last.changes.obj THEN last.changes.obj[f]
         ELSE last.pre.validity[f]

\* C16 witness: a call that named one flag returned, and another flag, set
\* before the call, is still set.
C16_Witness ==
  /\ Called("setValidity") /\ last.outcome = Ok
  /\ last.changes.present /\ DOMAIN last.changes.obj # {}
  /\ \E f \in Flags \ DOMAIN last.changes.obj :
       last.pre.validity[f] = TRUE /\ validityMap[last.inst][f] = TRUE

\* C19 as stated: no reportValidity call ever fails on the guard for an
\* anchor on a host whose class is not form-associated.
C19_GuardNeverRaised == last.outcome # AnchorNotAssociated

\* C19 amended: a reportValidity call that passed the association check on
\* entry fails on the guard exactly when, as checkValidity returns, an anchor
\* is registered and the host's class is no longer form-associated: the class
\* was changed while the "invalid" event of the call was being dispatched.
C19_GuardRaisedOnlyAfterDispatch ==
  (Called("reportValidity") /\ last.pre.associated /\ last.outcome # Dispatching)
  => /\ last.outcome = AnchorNotAssociated
        <=> (validationAnchorMap[last.inst] # Undefined /\ ~formAssociated[last.ref])
     /\ last.outcome = AnchorNotAssociated
        => ~last.pre.validity.valid /\ last.events = 1

\* C19 witness: reportValidity failed on the guard.
C19_Witness ==
  /\ Called("reportValidity") /\ last.outcome = AnchorNotAssociated
  /\ last.pre.associated /\ ~formAssociated[last.ref]

\* C20: a checkValidity call that returns, returns false exactly when it
\* dispatched an "invalid" event, whatever the listeners of the event did.
C20_FalseIffDispatched ==
  (Called("checkValidity") /\ last.outcome = Ok)
  => (last.result = "false" <=> last.events = 1)

\* The host whose attachShadow call has created its shadow root and not yet
\* observed it.
BeingAttached(host) == pc.host = host /\ pc.at \in {"created", "recorded"}

\* C17: however many times the module has been evaluated, attachShadow is
\* wrapped once and one observer observes the document; every shadow root
\* has exactly one observer from the call that created it on: none more ever,
\* and none less once that call has observed it.
C17_InstalledOnce ==
  /\ evaluations >= 1
     => /\ windowElementInternals
        /\ wrappers = 1
        /\ documentObservers = 1
  /\ \A host \in Elements :
       shadowObservers[host] =
         IF platformShadowRoot[host] # NoRoot /\ ~BeingAttached(host) THEN 1 ELSE 0

\* C17 witness: the module has been evaluated more than once, a host has a
\* shadow root with its one observer, and a second attachShadow on that host
\* has failed.
C17_Witness ==
  /\ evaluations > 1
  /\ last.op = "attachShadow" /\ last.outcome = NotSupported
  /\ shadowObservers[last.ref] = 1

\* C18: in every attachShadow call through the wrapper the platform's
\* attachShadow runs first, with the caller's argument; the shadow root it
\* made is recorded for the host next; the observer observes it after that;
\* the call returns that shadow root.  A call in which the platform's
\* attachShadow fails writes no record, replaces none and adds no observer.
C18_PlatformThenRecordThenObserve ==
  [][/\ \A host \in Elements :
          /\ platformShadowRoot'[host] # platformShadowRoot[host]
             => /\ pc = Idle /\ pc'.at = "created" /\ pc'.host = host
                /\ platformShadowRoot'[host] = [host |-> host, mode |-> pc'.init.mode]
                /\ shadowRootMap[host] = NoRoot /\ shadowObservers[host] = 0
          /\ shadowRootMap'[host] # shadowRootMap[host]
             => /\ pc.at = "created" /\ pc.host = host
                /\ platformShadowRoot[host] # NoRoot
                /\ shadowRootMap'[host] = platformShadowRoot[host]
                /\ shadowObservers[host] = 0
          /\ shadowObservers'[host] # shadowObservers[host]
             => /\ pc.at = "recorded" /\ pc.host = host
                /\ shadowRootMap[host] = platformShadowRoot[host]
                /\ shadowObservers[host] = 0 /\ shadowObservers'[host] = 1
     /\ (last'.op = "attachShadow" /\ last'.outcome = Ok)
        => /\ pc.at = "observing" /\ pc' = Idle
           /\ last'.root = platformShadowRoot'[last'.ref]
           /\ last'.root = [host |-> last'.ref, mode |-> last'.init.mode]
           /\ shadowRootMap'[last'.ref] = last'.root
           /\ shadowObservers'[last'.ref] = 1
     /\ (last'.op = "attachShadow" /\ platformShadowRoot[last'.ref] # NoRoot /\ pc = Idle)
        => /\ last'.outcome = NotSupported
           /\ UNCHANGED <<platformShadowRoot, shadowRootMap, shadowObservers,
                          shadowHostsMap, pc>>]_vars

\* C18 witness: a shadow root was attached, recorded and observed, and a
\* second attachShadow on the same host, with another mode, has failed.
C18_Witness ==
  /\ last.op = "attachShadow" /\ last.outcome = NotSupported
  /\ shadowRootMap[last.ref] = platformShadowRoot[last.ref]
  /\ shadowRootMap[last.ref].mode # last.init.mode
  /\ shadowObservers[last.ref] = 1 /\ shadowHostsMap[last.ref] = "observer"

====
